---- MODULE Spec2Model ----
(***************************************************************************)
(* Model of the drizzle-op-sqlite-sync adapter (src/src/sqlite) and of the *)
(* demo scenarios that drive it together with the sync engine's managed    *)
(* connection (src/demo/src/SimultaneousWritesScreen.tsx).                 *)
(*                                                                         *)
(* Part 1 models drizzle(client) and OPSQLiteSession.transaction as a      *)
(* state machine over one JavaScript call stack. The user callback is      *)
(* synchronous, as the 'sync' session type prescribes: it runs to          *)
(* completion inside transaction(). Every statement that reaches a native  *)
(* connection handle is appended to the history variable log.              *)
(***************************************************************************)
EXTENDS Integers, Sequences, FiniteSets, TLC

\* ------------------------------------------------------------------ bounds
MaxCalls == 2
MaxStmts == 2
NumInserts == 3
NumRows == 3
NumCycles == 4
MaxMsgLen == 5
NumUpdates == 3
MaxChanges == 3
MaxQueue == 2

\* --------------------------------------------------------------- constants
Handles == {"h1", "h2"}
Values == {"v1", "v2"}
NoHandle == "none"
NestedMsg == "Nested transactions are not supported"
UserMsg == "callback error"
NativeMsg == "native statement error"

VARIABLES
  client,    \* the native handle passed to drizzle(client, config)
  db,        \* the object drizzle() returned: [made, dollarClient ($client), session]
  calls,     \* transaction() activations of the running top-level operation
  stack,     \* the JavaScript call stack: ids of the running transaction() calls
  log,       \* history of the running top-level operation: statements, events
  inTxn,     \* per native handle: a transaction is open (not autocommit)
  errs,      \* message of every error object raised in it, by error id
  nstmts,    \* statements user code issued in the running top-level operation
  scenario,  \* the demo scenario that is running ("idle" between scenarios)
  table,     \* the rows of table lists in the database file
  tasks,     \* the promises the scenario started: [ops, pos, status]
  lockHolder,\* the handle that holds the file's write lock (NoHandle: free)
  lt,        \* runLockingTest: its position and locals
  attempts,  \* history: the managed writes the running runLockingTest attempted
  updateBuffer, \* System.updateBuffer: the UpdateNotification objects buffered
  listeners, \* the listeners registered with powersync.database, in iteration order
  notifying, \* the commit hook's iterateListeners: [active, batch, todo]
  delivered, \* history: the tablesUpdated calls made, [listener, batch]
  fate,      \* history: per reported row change, what became of its transaction
  lastRun,   \* history: the buffer the latest commit hook found, and Len(delivered) then
  reported,  \* history: the row changes the driver reported, in order
  up         \* SelfhostConnector and the upload queue: _clientId, the CRUD
             \* transactions waiting, the locals and history of the uploadData call

adapterVars == <<client, db, calls, stack, log, errs, nstmts>>
demoVars == <<scenario, table, tasks, lockHolder, lt, attempts>>
hookVars == <<updateBuffer, listeners, notifying, delivered, fate, lastRun, reported, up>>
vars == <<client, db, calls, stack, log, inTxn, errs, nstmts,
          scenario, table, tasks, lockHolder, lt, attempts,
          updateBuffer, listeners, notifying, delivered, fate, lastRun, reported, up>>

\* ---------------------------------------------------------------- sessions
\* OPSQLiteBaseSession constructor: the parameter property db.
OPSQLiteBaseSessionNew(h) == [db |-> h, client |-> NoHandle]

\* OPSQLiteSession constructor: super(db, ...) and this.client = db.
OPSQLiteSessionNew(h) == [db |-> h, client |-> h]

\* drizzle(client, config): the session is built on client, db.$client = client.
drizzle(h) == [made |-> TRUE, dollarClient |-> h, session |-> OPSQLiteSessionNew(h)]

\* OPSQLitePreparedQuery, built by prepareQuery on the session's db: on
\* execution the SQL text is passed to that handle's synchronous execute.
PreparedQueryHandle(session) == session.db

\* prepareQuery(...) of a session: the prepared query runs on this.db.
prepareQuery(session) == PreparedQueryHandle(session)

\* ------------------------------------------------------- native connection
\* The outcomes a statement can have on handle h: "ok", "error" (the statement
\* fails, an open transaction stays open) or "abort" (it fails and SQLite rolls
\* the open transaction back by itself).
Outcomes(h, sql) ==
  CASE sql = "begin" -> IF inTxn[h] THEN {"error"} ELSE {"ok", "error"}
    [] sql = "commit" -> IF inTxn[h] THEN {"ok", "error", "abort"} ELSE {"error"}
    [] sql = "rollback" -> IF inTxn[h] THEN {"ok"} ELSE {"error"}
    [] OTHER -> IF inTxn[h] THEN {"ok", "error", "abort"} ELSE {"ok", "error"}

InTxnAfter(h, sql, o) ==
  CASE sql = "begin" /\ o = "ok" -> TRUE
    [] sql \in {"commit", "rollback"} /\ o = "ok" -> FALSE
    [] o = "abort" -> FALSE
    [] OTHER -> inTxn[h]

NextErr == Len(errs) + 1

Event(ev, c, sql, h, ok, via, val, err) ==
  [ev |-> ev, call |-> c, sql |-> sql, h |-> h, ok |-> ok, via |-> via,
   val |-> val, err |-> err]

\* executeSync(sql) on handle h for call c, with outcome o.
ExecEvent(c, sql, h, o, via) ==
  Event("exec", c, sql, h, o = "ok", via, "", IF o = "ok" THEN 0 ELSE NextErr)

Top == stack[Len(stack)]
Running(c) == stack # <<>> /\ Top = c

NoError == <<>>
NoResultError == [defined |-> FALSE, got |-> <<>>]
LtOff ==
  [pc |-> "off", caught |-> FALSE, lockError |-> NoError, passed |-> FALSE,
   error |-> NoResultError]

\* No demo scenario is running.
DemoIdle ==
  /\ scenario = "idle"
  /\ table = {}
  /\ tasks = <<>>
  /\ lockHolder = NoHandle
  /\ lt = LtOff
  /\ attempts = <<>>

\* A new SelfhostConnector, no uploadData call made.
NoTransaction == <<>>
UploadIdle(queue) ==
  [pc |-> "idle", clientId |-> "null", queue |-> queue, transaction |-> NoTransaction,
   batch |-> <<>>, posts |-> <<>>, response |-> "none", completeCalled |-> FALSE,
   error |-> "none"]

\* No hook has run: the buffer of a new System, nothing delivered.
NotNotifying == [active |-> FALSE, batch |-> <<>>, todo |-> <<>>]
HookIdle ==
  /\ updateBuffer = <<>>
  /\ listeners = <<>>
  /\ notifying = NotNotifying
  /\ delivered = <<>>
  /\ fate = [n \in 1..MaxChanges |-> "none"]
  /\ lastRun = [buffer |-> <<>>, from |-> 0]
  /\ reported = <<>>
  /\ up = UploadIdle(<<>>)

NoCall ==
  [pc |-> "unused", parent |-> 0, tx |-> OPSQLiteBaseSessionNew(NoHandle),
   result |-> "", err |-> 0, orig |-> 0, thrown |-> 0]

Init ==
  /\ client = NoHandle
  /\ db = [made |-> FALSE, dollarClient |-> NoHandle, session |-> OPSQLiteSessionNew(NoHandle)]
  /\ calls = [c \in 1..MaxCalls |-> NoCall]
  /\ stack = <<>>
  /\ log = <<>>
  /\ inTxn = [h \in Handles |-> FALSE]
  /\ errs = <<>>
  /\ nstmts = 0
  /\ DemoIdle
  /\ HookIdle

\* ------------------------------------------- OPSQLiteSession.transaction
\* Mutant: the inner session is built on a handle other than this.client.
TransactionTx_OtherHandle(session) ==
  OPSQLiteBaseSessionNew(CHOOSE h \in Handles : h # session.client)

\* The tx handed to the callback wraps a new OPSQLiteBaseSession on this.client.
TransactionTx(session) == OPSQLiteBaseSessionNew(session.client)

\* this.run(sql`...`) of the outer session: a one-time prepared query on this.db.
RunHandle(session) == prepareQuery(session)

\* A statement issued through tx runs on the inner session's prepared query.
TxHandle(call) == prepareQuery(call.tx)

\* Mutant: begin is run inside the try block's protection, its failure ignored.
AfterBegin_Ignored(o) == "invoke"

\* Mutant: a begin that failed is followed by the callback all the same.
AfterBegin_Invokes(o) == IF o \in {"ok", "error"} THEN "invoke" ELSE "throwing"

\* begin throws outside the try block; otherwise the callback is invoked.
AfterBegin(o) == IF o = "ok" THEN "invoke" ELSE "throwing"

\* result = transaction(tx) is followed by this.run(sql`commit`).
AfterCallbackReturn == "commit"

\* a throw inside the try block (callback or commit) enters the catch block.
AfterTryThrow == "catch"

\* Mutant: a failed commit is tried again.
AfterCommit_Retry(o) == IF o = "ok" THEN "returning" ELSE "commit"

\* after a successful commit the function reaches return result.
AfterCommit(o) == IF o = "ok" THEN "returning" ELSE AfterTryThrow

\* catch (err) { this.run(sql`rollback`); throw err; }: a rollback that throws
\* leaves the catch block with its own error.
CatchThrown(err, o) == IF o = "ok" THEN err ELSE NextErr

\* Mutant: the callback's value is dropped.
ReturnValue_Dropped(call) == ""

\* return result
ReturnValue(call) == call.result

\* Mutant: the nested callback is invoked before the error is thrown.
NestedTransaction_Invokes(c) ==
  <<Event("cb_enter", c, "", NoHandle, TRUE, "nested", "", 0),
    Event("nested_throw", c, "", NoHandle, FALSE, "tx", "", NextErr)>>

\* OPSQLiteBaseSession.transaction: throws at once; the callback handed to it
\* is not invoked and nothing is executed. The result is the events it adds.
NestedTransaction(c) ==
  <<Event("nested_throw", c, "", NoHandle, FALSE, "tx", "", NextErr)>>

NumCalls == Cardinality({c \in 1..MaxCalls : calls[c].pc # "unused"})

StartCall(parent) ==
  LET c == NumCalls + 1 IN
  /\ NumCalls < MaxCalls
  /\ calls' = [calls EXCEPT ![c] =
       [NoCall EXCEPT !.pc = "begin", !.parent = parent, !.tx = TransactionTx(db.session)]]
  /\ stack' = Append(stack, c)

\* Mutant: commit runs as in a finally block, also when the callback threw.
CbThrows_Commits(cs, c, e) ==
  [cs EXCEPT ![c].pc = "commit", ![c].err = e, ![c].orig = e]

\* The callback of call c is left by throwing error e.
CbThrows(cs, c, e) ==
  [cs EXCEPT ![c].pc = AfterTryThrow, ![c].err = e, ![c].orig = e]

CbThrowEvent(c, e) == Event("cb_throw", c, "", NoHandle, FALSE, "", "", e)

Drizzle ==
  /\ ~db.made
  /\ \E h \in Handles : client' = h /\ db' = drizzle(h)
  /\ UNCHANGED <<calls, stack, log, inTxn, errs, nstmts>>
  /\ UNCHANGED <<demoVars, hookVars>>

\* The history variables describe the running top-level operation: a new
\* top-level operation starts them afresh.
FreshCalls == [c \in 1..MaxCalls |-> NoCall]

\* Mutant: a task is started while a synchronous call is on the stack.
TaskMayStart_Preemptive == TRUE

\* JavaScript runs a task to completion: another task (a continuation of a
\* pending operation, a listener, a handler) starts only on an empty stack.
TaskMayStart == stack = <<>>

\* The history a task's adapter statement is appended to: a new one when no
\* operation is running.
TaskHistory == IF stack = <<>> THEN <<>> ELSE log
TaskErrs == IF stack = <<>> THEN <<>> ELSE errs

\* db.insert(...).run() and the like, called by a task of its own.
BuilderQuery ==
  /\ db.made /\ TaskMayStart
  /\ LET h == prepareQuery(db.session) IN
     \E o \in Outcomes(h, "stmt") :
       /\ log' = Append(TaskHistory,
                        Event("exec", 0, "stmt", h, o = "ok", "builder", "",
                              IF o = "ok" THEN 0 ELSE Len(TaskErrs) + 1))
       /\ inTxn' = [inTxn EXCEPT ![h] = InTxnAfter(h, "stmt", o)]
       /\ errs' = TaskErrs \o (IF o = "ok" THEN <<>> ELSE <<NativeMsg>>)
  /\ calls' = IF stack = <<>> THEN FreshCalls ELSE calls
  /\ nstmts' = 1
  /\ UNCHANGED <<client, db, stack>>
  /\ UNCHANGED <<demoVars, hookVars>>

\* db.transaction(cb) called from the top level: lines 33-40, tx is built.
Transaction ==
  /\ db.made /\ TaskMayStart /\ stack = <<>>
  /\ calls' = [FreshCalls EXCEPT ![1] =
       [NoCall EXCEPT !.pc = "begin", !.parent = 0, !.tx = TransactionTx(db.session)]]
  /\ stack' = <<1>>
  /\ log' = <<>>
  /\ errs' = <<>>
  /\ nstmts' = 0
  /\ UNCHANGED <<client, db, inTxn>>
  /\ UNCHANGED <<demoVars, hookVars>>

\* The events and the activation records when call c throws error e: at the
\* top level the error reaches the caller; inside a callback that callback
\* catches it (catch) or is left by it.
ThrowEvents(c, e, catch) ==
  IF catch THEN <<Event("tx_throw", c, "", NoHandle, FALSE, "", "", e)>>
  ELSE <<Event("tx_throw", c, "", NoHandle, FALSE, "", "", e),
         CbThrowEvent(calls[c].parent, e)>>

ThrowCalls(cs, c, e, catch) ==
  LET done == [cs EXCEPT ![c].pc = "threw", ![c].thrown = e] IN
  IF catch THEN done ELSE CbThrows(done, cs[c].parent, e)

Pop == SubSeq(stack, 1, Len(stack) - 1)

\* this.run(sql`begin`); on success the try block is entered and the callback
\* invoked: result = transaction(tx). A failing begin throws out of the call.
TxBegin ==
  /\ stack # <<>> /\ calls[Top].pc = "begin"
  /\ LET c == Top
         h == RunHandle(db.session) IN
     \E o \in Outcomes(h, "begin"), catch \in BOOLEAN :
       /\ inTxn' = [inTxn EXCEPT ![h] = InTxnAfter(h, "begin", o)]
       /\ errs' = IF o = "ok" THEN errs ELSE Append(errs, NativeMsg)
       /\ IF AfterBegin(o) = "invoke"
            THEN /\ catch
                 /\ log' = log \o <<ExecEvent(c, "begin", h, o, "session"),
                                    Event("cb_enter", c, "", NoHandle, TRUE, "", "", 0)>>
                 /\ calls' = [calls EXCEPT ![c].pc = "callback"]
                 /\ stack' = stack
            ELSE /\ calls[c].parent = 0 => catch
                 /\ log' = log \o <<ExecEvent(c, "begin", h, o, "session")>>
                                \o ThrowEvents(c, NextErr, catch)
                 /\ calls' = ThrowCalls([calls EXCEPT ![c].orig = NextErr], c, NextErr, catch)
                 /\ stack' = Pop
  /\ UNCHANGED <<client, db, nstmts>>
  /\ UNCHANGED <<demoVars, hookVars>>

\* The callback runs a statement through tx; when the statement throws, the
\* callback either catches the error or is left by it.
CbStmt ==
  /\ stack # <<>> /\ calls[Top].pc = "callback" /\ nstmts < MaxStmts
  /\ LET c == Top
         h == TxHandle(calls[c]) IN
     \E o \in Outcomes(h, "stmt"), catch \in BOOLEAN :
       /\ inTxn' = [inTxn EXCEPT ![h] = InTxnAfter(h, "stmt", o)]
       /\ errs' = IF o = "ok" THEN errs ELSE Append(errs, NativeMsg)
       /\ IF o = "ok" \/ catch
            THEN /\ o = "ok" => catch
                 /\ log' = Append(log, ExecEvent(c, "stmt", h, o, "tx"))
                 /\ calls' = calls
            ELSE /\ log' = log \o <<ExecEvent(c, "stmt", h, o, "tx"), CbThrowEvent(c, NextErr)>>
                 /\ calls' = CbThrows(calls, c, NextErr)
  /\ nstmts' = nstmts + 1
  /\ UNCHANGED <<client, db, stack>>
  /\ UNCHANGED <<demoVars, hookVars>>

\* The callback calls tx.transaction(...): OPSQLiteBaseSession.transaction.
CbNested ==
  /\ stack # <<>> /\ calls[Top].pc = "callback" /\ nstmts < MaxStmts
  /\ \E catch \in BOOLEAN :
     LET c == Top IN
       /\ errs' = Append(errs, NestedMsg)
       /\ IF catch
            THEN /\ log' = log \o NestedTransaction(c)
                 /\ calls' = calls
            ELSE /\ log' = log \o NestedTransaction(c) \o <<CbThrowEvent(c, NextErr)>>
                 /\ calls' = CbThrows(calls, c, NextErr)
  /\ nstmts' = nstmts + 1
  /\ UNCHANGED <<client, db, stack, inTxn>>
  /\ UNCHANGED <<demoVars, hookVars>>

\* The callback calls db.transaction(...) on the outer database again.
CbDbTransaction ==
  /\ stack # <<>> /\ calls[Top].pc = "callback"
  /\ StartCall(Top)
  /\ UNCHANGED <<client, db, log, inTxn, errs, nstmts>>
  /\ UNCHANGED <<demoVars, hookVars>>

\* The callback throws an error of its own.
CbThrow ==
  /\ stack # <<>> /\ calls[Top].pc = "callback"
  /\ errs' = Append(errs, UserMsg)
  /\ log' = Append(log, CbThrowEvent(Top, NextErr))
  /\ calls' = CbThrows(calls, Top, NextErr)
  /\ UNCHANGED <<client, db, stack, inTxn, nstmts>>
  /\ UNCHANGED <<demoVars, hookVars>>

\* The callback returns a value.
CbReturn ==
  /\ stack # <<>> /\ calls[Top].pc = "callback"
  /\ \E v \in Values :
       /\ log' = Append(log, Event("cb_return", Top, "", NoHandle, TRUE, "", v, 0))
       /\ calls' = [calls EXCEPT ![Top].pc = AfterCallbackReturn, ![Top].result = v]
  /\ UNCHANGED <<client, db, stack, inTxn, errs, nstmts>>
  /\ UNCHANGED <<demoVars, hookVars>>

\* this.run(sql`commit`); on success return result, and the caller goes on.
TxCommit ==
  /\ stack # <<>> /\ calls[Top].pc = "commit"
  /\ LET c == Top
         h == RunHandle(db.session) IN
     \E o \in Outcomes(h, "commit") :
       /\ inTxn' = [inTxn EXCEPT ![h] = InTxnAfter(h, "commit", o)]
       /\ errs' = IF o = "ok" THEN errs ELSE Append(errs, NativeMsg)
       /\ IF AfterCommit(o) = "returning"
            THEN /\ log' = log \o <<ExecEvent(c, "commit", h, o, "session"),
                                    Event("tx_return", c, "", NoHandle, TRUE, "",
                                          ReturnValue(calls[c]), 0)>>
                 /\ calls' = [calls EXCEPT ![c].pc = "returned"]
                 /\ stack' = Pop
            ELSE /\ log' = Append(log, ExecEvent(c, "commit", h, o, "session"))
                 /\ calls' = [calls EXCEPT ![c].pc = AfterCommit(o), ![c].err = NextErr,
                                           ![c].orig = NextErr]
                 /\ stack' = stack
  /\ UNCHANGED <<client, db, nstmts>>
  /\ UNCHANGED <<demoVars, hookVars>>

\* catch (err) { this.run(sql`rollback`); throw err; }
TxRollback ==
  /\ stack # <<>> /\ calls[Top].pc = "catch"
  /\ LET c == Top
         h == RunHandle(db.session) IN
     \E o \in Outcomes(h, "rollback"), catch \in BOOLEAN :
       LET e == CatchThrown(calls[c].err, o) IN
       /\ calls[c].parent = 0 => catch
       /\ inTxn' = [inTxn EXCEPT ![h] = InTxnAfter(h, "rollback", o)]
       /\ errs' = IF o = "ok" THEN errs ELSE Append(errs, NativeMsg)
       /\ log' = log \o <<ExecEvent(c, "rollback", h, o, "session")>>
                      \o ThrowEvents(c, e, catch)
       /\ calls' = ThrowCalls(calls, c, e, catch)
       /\ stack' = Pop
  /\ UNCHANGED <<client, db, nstmts>>
  /\ UNCHANGED <<demoVars, hookVars>>

Next ==
  \/ Drizzle
  \/ BuilderQuery
  \/ Transaction
  \/ TxBegin
  \/ CbStmt
  \/ CbNested
  \/ CbDbTransaction
  \/ CbThrow
  \/ CbReturn
  \/ TxCommit
  \/ TxRollback

Spec == Init /\ [][Next]_vars

(***************************************************************************)
(* Part 2: the demo scenarios of runSimultaneousWritesTest. The sync       *)
(* engine's managed connection and the adapter work on one native handle,  *)
(* a second raw connection is opened on the same database file. A          *)
(* statement is executed atomically by SQLite; the promises a scenario     *)
(* starts settle in any order, the operations of one promise chain in      *)
(* program order.                                                          *)
(***************************************************************************)
\* getPowerSyncWriteDB(powersync): the managed connection's native handle.
ManagedHandle == "h1"

\* Mutant: the second connection is the managed connection's handle.
SeparateConnection_Shared == ManagedHandle

\* separateWriteConnection = open({ name: DB_NAME }): a handle of its own.
SeparateConnection == "h2"

\* Error messages of the native driver, as character sequences.
LockedMsg ==
  <<"d", "a", "t", "a", "b", "a", "s", "e", " ", "i", "s", " ",
    "l", "o", "c", "k", "e", "d">>
UniqueMsg ==
  <<"U", "N", "I", "Q", "U", "E", " ", "c", "o", "n", "s", "t", "r", "a", "i", "n", "t",
    " ", "f", "a", "i", "l", "e", "d">>

\* Mutant: the message is compared as it is.
ToLowerCase_Identity(str) == str

\* String.prototype.toLowerCase on the characters the messages use.
LowerOf(ch) ==
  CASE ch = "U" -> "u" [] ch = "N" -> "n" [] ch = "I" -> "i" [] ch = "Q" -> "q"
    [] ch = "E" -> "e" [] ch = "L" -> "l" [] ch = "O" -> "o" [] ch = "C" -> "c"
    [] ch = "K" -> "k" [] OTHER -> ch
ToLowerCase(str) == [i \in 1..Len(str) |-> LowerOf(str[i])]

\* String.prototype.includes
Includes(str, sub) ==
  \E i \in 0..(Len(str) - Len(sub)) : SubSeq(str, i + 1, i + Len(sub)) = sub

\* lockError.toLowerCase().includes('lock')
MentionsLock(msg) == Includes(ToLowerCase(msg), <<"l", "o", "c", "k">>)

\* -------------------------------------------------- table lists in SQLite
Row(rowid, id, name) == [rowid |-> rowid, id |-> id, name |-> name]
RowsWith(t, id) == {r \in t : r.id = id}
NewRowid(t) ==
  IF t = {} THEN 1 ELSE (CHOOSE n \in {r.rowid : r \in t} : \A r \in t : r.rowid <= n) + 1

\* Mutant: the schema declares no primary key.
InsertConflicts_NoKey(t, id) == FALSE

\* id: text('id').primaryKey(): an insert of an id that is present fails.
InsertConflicts(t, id) == RowsWith(t, id) # {}

\* INSERT INTO lists (id, name, owner_id) VALUES (?, ?, ?)
Insert(t, id, name) == t \cup {Row(NewRowid(t), id, name)}

\* Mutant: the WHERE clause is missing, every row is renamed.
Update_NoWhere(t, id, name) == {[r EXCEPT !.name = name] : r \in t}

\* Mutant: the update is written as an insert of the new values.
Update_Appends(t, id, name) == t \cup {Row(NewRowid(t), id, name)}

\* UPDATE lists SET name = ? WHERE id = ?
Update(t, id, name) == {IF r.id = id THEN [r EXCEPT !.name = name] ELSE r : r \in t}

\* DELETE FROM lists WHERE id = ?
Delete(t, id) == {r \in t : r.id # id}

Op(kind, id, name, path) == [kind |-> kind, id |-> id, name |-> name, path |-> path]

\* powersync.execute runs on the managed handle, a builder query of the adapter
\* on the handle of its session's prepared query.
PathHandle(path) ==
  IF path = "managed" THEN ManagedHandle ELSE prepareQuery(db.session)

\* A write through handle h finds the file locked when another connection
\* holds the write lock.
Locked(h) == lockHolder # NoHandle /\ lockHolder # h

\* The error a write throws, NoError when it succeeds.
WriteError(op) ==
  IF Locked(PathHandle(op.path)) THEN LockedMsg
  ELSE IF op.kind = "insert" /\ InsertConflicts(table, op.id) THEN UniqueMsg
  ELSE NoError

\* The table after a write that succeeded.
Apply(t, op) ==
  CASE op.kind = "insert" -> Insert(t, op.id, op.name)
    [] op.kind = "update" -> Update(t, op.id, op.name)
    [] OTHER -> Delete(t, op.id)

Task(ops) == [ops |-> ops, pos |-> 0, status |-> "pending"]
Paths == {"managed", "adapter"}
AllSettled == \A k \in 1..Len(tasks) : tasks[k].status # "pending"
Idle == scenario = "idle" \/ (scenario # "locking" /\ AllSettled) \/ lt.pc = "done"

\* The harness: drizzleOnPowerSync = drizzle(getPowerSyncWriteDB(powersync)).
DemoInit ==
  /\ client = ManagedHandle
  /\ db = drizzle(ManagedHandle)
  /\ calls = [c \in 1..MaxCalls |-> NoCall]
  /\ stack = <<>>
  /\ log = <<>>
  /\ inTxn = [h \in Handles |-> FALSE]
  /\ errs = <<>>
  /\ nstmts = 0
  /\ DemoIdle
  /\ HookIdle

\* Mutant: every insert uses one and the same id.
InsertId_Same(k) == 1

\* const powersyncIds = Array.from(..., () => uuid()): an id of its own each.
InsertId(k) == k

\* runHookedConnectionSimultaneousWrites, runLargeBatchOperations and a burst
\* of runRapidSequentialWrites: after the awaited DELETE FROM lists, inserts
\* of distinct ids are started on the two paths.
StartInserts ==
  /\ Idle
  /\ \E path \in [1..NumInserts -> Paths] :
       tasks' = [k \in 1..NumInserts |->
                   Task(<<Op("insert", InsertId(k), <<"inserted", k>>, path[k])>>)]
  /\ scenario' = "inserts"
  /\ table' = {}
  /\ lt' = LtOff
  /\ UNCHANGED <<adapterVars, hookVars, inTxn, lockHolder, attempts>>

\* runConcurrentUpdates, runConcurrentDeletes and runMixedOperations: rows
\* 1..NumRows were inserted and awaited, then each is updated or deleted by an
\* operation of its own, and (runMixedOperations) a new id is inserted.
StartUpdatesDeletes ==
  /\ Idle
  /\ \E kind \in [1..NumRows -> {"update", "delete"}], path \in [1..NumRows + 1 -> Paths],
        mixed \in BOOLEAN :
       tasks' = [k \in 1..NumRows |-> Task(<<Op(kind[k], k, <<"updated", k>>, path[k])>>)]
                \o (IF mixed
                      THEN <<Task(<<Op("insert", NumRows + 1, <<"inserted", NumRows + 1>>,
                                       path[NumRows + 1])>>)>>
                      ELSE <<>>)
  /\ scenario' = "updates_deletes"
  /\ table' = {Row(k, k, <<"original", k>>) : k \in 1..NumRows}
  /\ lt' = LtOff
  /\ UNCHANGED <<adapterVars, hookVars, inTxn, lockHolder, attempts>>

\* const isDelete = i % 2 === 0, for a cycle that starts with operation first.
IsDelete(i, first) == (i + first) % 2 = 0

\* runDeleteAndInsertSameId: the row was inserted and awaited; then deletes on
\* the managed connection and inserts through the adapter alternate on its id,
\* each awaited before the next. The demo's cycle starts with the delete
\* (first = 0); the cycle that starts with the insert is covered as well.
StartDeleteInsert ==
  /\ Idle
  /\ \E first \in {0, 1} :
       tasks' = <<Task([i \in 1..NumCycles |->
                     IF IsDelete(i - 1, first)
                       THEN Op("delete", 1, <<>>, "managed")
                       ELSE Op("insert", 1, <<"reinserted", i - 1>>, "adapter")])>>
  /\ scenario' = "delete_insert"
  /\ table' = {Row(1, 1, <<"initial", 0>>)}
  /\ lt' = LtOff
  /\ UNCHANGED <<adapterVars, hookVars, inTxn, lockHolder, attempts>>

\* if (i % 2 === 0) powersync.execute(...) else drizzleOnPowerSync.update(...)
UpdatePath(i) == IF i % 2 = 0 THEN "managed" ELSE "adapter"

\* runConcurrentSameRowUpdates: one row was inserted and awaited, then
\* updateCount updates of that row are started, alternating between the paths.
StartSameRowUpdates ==
  /\ Idle
  /\ tasks' = [k \in 1..NumUpdates |->
                Task(<<Op("update", 1, <<"updated", k - 1>>, UpdatePath(k - 1))>>)]
  /\ scenario' = "same_row"
  /\ table' = {Row(1, 1, <<"shared", 0>>)}
  /\ lt' = LtOff
  /\ UNCHANGED <<adapterVars, hookVars, inTxn, lockHolder, attempts>>

\* Mutant: the statements of an async function are started without await.
Chain_NotAwaited(ops) == [i \in 1..Len(ops) |-> Task(<<ops[i]>>)]

\* (async () => { await insert; await update; })(): one promise whose
\* statements run in program order, each after the one before has settled.
Chain(ops) == <<Task(ops)>>

\* runTransactionsMixedAPIs: after the awaited DELETE FROM lists, txn1 (insert
\* then update of id 1 by powersync.execute), txn2 (insert then update of id 2
\* through the adapter) and txn3 (insert of id 3) are started.
StartMixedAPIs ==
  /\ Idle
  /\ tasks' = Chain(<<Op("insert", 1, <<"inserted", 1>>, "managed"),
                      Op("update", 1, <<"updated", 1>>, "managed")>>)
               \o Chain(<<Op("insert", 2, <<"inserted", 2>>, "adapter"),
                         Op("update", 2, <<"updated", 2>>, "adapter")>>)
               \o Chain(<<Op("insert", 3, <<"inserted", 3>>, "managed")>>)
  /\ scenario' = "mixed_apis"
  /\ table' = {}
  /\ lt' = LtOff
  /\ UNCHANGED <<adapterVars, hookVars, inTxn, lockHolder, attempts>>

\* A started promise runs its next statement; a statement that throws rejects
\* the promise, the last one that succeeds fulfils it.
RunOp ==
  /\ scenario \in {"inserts", "updates_deletes", "delete_insert", "same_row", "mixed_apis"}
  /\ \E k \in 1..Len(tasks) :
       /\ tasks[k].status = "pending"
       /\ LET op == tasks[k].ops[tasks[k].pos + 1]
              e == WriteError(op) IN
          IF e = NoError
            THEN /\ table' = Apply(table, op)
                 /\ tasks' = [tasks EXCEPT ![k].pos = @ + 1,
                                ![k].status = IF tasks[k].pos + 1 = Len(tasks[k].ops)
                                                THEN "fulfilled" ELSE "pending"]
            ELSE /\ table' = table
                 /\ tasks' = [tasks EXCEPT ![k].status = "rejected"]
  /\ UNCHANGED <<adapterVars, hookVars, inTxn, scenario, lockHolder, lt, attempts>>

\* runLockingTest is called; the table is left as the last scenario left it.
\* The file's write lock is free at that time, or the sync engine's write
\* connection holds it for a write of the engine's own.
StartLocking ==
  /\ Idle
  /\ scenario' = "locking"
  /\ tasks' = <<>>
  /\ lt' = [LtOff EXCEPT !.pc = "begin"]
  /\ attempts' = <<>>
  /\ \E holder \in {NoHandle, ManagedHandle} : lockHolder' = holder
  /\ UNCHANGED <<adapterVars, hookVars, inTxn, table>>

\* Mutant: a write waits for the lock as long as another connection holds it.
Settles_WaitsForLock(h) == ~Locked(h)

\* PRAGMA busy_timeout: a write that finds the file locked gives up when the
\* timeout has run out and throws; it settles whether or not the lock is freed.
Settles(h) == TRUE

\* separateWriteConnection.executeSync('BEGIN IMMEDIATE TRANSACTION'): takes
\* the write lock, or throws into the catch block when it is not free.
LtBegin ==
  /\ scenario = "locking" /\ lt.pc = "begin"
  /\ IF Locked(SeparateConnection) \/ inTxn[SeparateConnection]
       THEN /\ lt' = [lt EXCEPT !.pc = "finally", !.caught = TRUE, !.lockError = LockedMsg]
            /\ UNCHANGED <<inTxn, lockHolder>>
       ELSE /\ lt' = [lt EXCEPT !.pc = "insert"]
            /\ inTxn' = [inTxn EXCEPT ![SeparateConnection] = TRUE]
            /\ lockHolder' = SeparateConnection
  /\ UNCHANGED <<adapterVars, hookVars, scenario, table, tasks, attempts>>

\* await powersync.execute('INSERT INTO lists ...'); catch (err) { lockError = ... }
LtInsert ==
  /\ scenario = "locking" /\ lt.pc = "insert"
  /\ Settles(ManagedHandle)
  /\ LET op == Op("insert", 0, <<"locked insert", 0>>, "managed")
         e == WriteError(op) IN
       /\ attempts' = Append(attempts,
            [held |-> inTxn[SeparateConnection] /\ lockHolder = SeparateConnection,
             error |-> e])
       /\ IF e = NoError
            THEN /\ table' = Apply(table, op)
                 /\ lt' = [lt EXCEPT !.pc = "finally"]
            ELSE /\ table' = table
                 /\ lt' = [lt EXCEPT !.pc = "finally", !.caught = TRUE, !.lockError = e]
  /\ UNCHANGED <<adapterVars, hookVars, inTxn, scenario, tasks, lockHolder>>

\* finally { try { separateWriteConnection.executeSync('ROLLBACK') } catch {} }
LtFinally ==
  /\ scenario = "locking" /\ lt.pc = "finally"
  /\ IF inTxn[SeparateConnection]
       THEN /\ inTxn' = [inTxn EXCEPT ![SeparateConnection] = FALSE]
            /\ lockHolder' = IF lockHolder = SeparateConnection THEN NoHandle ELSE lockHolder
       ELSE UNCHANGED <<inTxn, lockHolder>>
  /\ lt' = [lt EXCEPT !.pc = "result"]
  /\ UNCHANGED <<adapterVars, hookVars, scenario, table, tasks, attempts>>

\* const lockDetected = !!lockError && lockError.toLowerCase().includes('lock')
LockDetected(r) == r.caught /\ r.lockError # NoError /\ MentionsLock(r.lockError)

\* 'no error', as characters.
NoErrorText == <<"n", "o", " ", "e", "r", "r", "o", "r">>

\* error: lockDetected ? undefined : `Expected lock error ... Got: ${lockError ?? 'no error'}`
ResultError(r) ==
  IF LockDetected(r) THEN NoResultError
  ELSE [defined |-> TRUE, got |-> IF r.caught THEN r.lockError ELSE NoErrorText]

\* return { name, passed: lockDetected, error }
LtResult ==
  /\ scenario = "locking" /\ lt.pc = "result"
  /\ lt' = [lt EXCEPT !.pc = "done", !.passed = LockDetected(lt), !.error = ResultError(lt)]
  /\ UNCHANGED <<adapterVars, hookVars, inTxn, scenario, table, tasks, lockHolder, attempts>>

DemoNext ==
  \/ StartInserts
  \/ StartUpdatesDeletes
  \/ StartDeleteInsert
  \/ StartSameRowUpdates
  \/ StartMixedAPIs
  \/ RunOp
  \/ StartLocking
  \/ LtBegin
  \/ LtInsert
  \/ LtFinally
  \/ LtResult

DemoSpec == DemoInit /\ [][DemoNext]_vars

(***************************************************************************)
(* The classification at the end of runLockingTest (lines 90-104), for     *)
(* every message the catch block can have stored: runLockingTest has left  *)
(* its finally block with lockError undefined (nothing caught) or with a   *)
(* message of up to MaxMsgLen characters.                                  *)
(***************************************************************************)
MsgChars == {"L", "l", "o", "c", "k", "x"}
Messages == UNION {[1..n -> MsgChars] : n \in 0..MaxMsgLen}

LockInit ==
  /\ client = ManagedHandle
  /\ db = drizzle(ManagedHandle)
  /\ calls = [c \in 1..MaxCalls |-> NoCall]
  /\ stack = <<>>
  /\ log = <<>>
  /\ inTxn = [h \in Handles |-> FALSE]
  /\ errs = <<>>
  /\ nstmts = 0
  /\ scenario = "locking"
  /\ table = {}
  /\ tasks = <<>>
  /\ lockHolder = NoHandle
  /\ attempts = <<>>
  /\ HookIdle
  /\ \/ lt = [LtOff EXCEPT !.pc = "result"]
     \/ \E msg \in Messages :
          lt = [LtOff EXCEPT !.pc = "result", !.caught = TRUE, !.lockError = msg]

LockNext == LtResult

LockSpec == LockInit /\ [][LockNext]_vars

(***************************************************************************)
(* Part 3: System.initPowersyncOpSqlite. The update hook and the commit    *)
(* hook are installed on the managed connection's handle, the handle the   *)
(* adapter is built on. The driver calls the update hook for every row a   *)
(* statement changes and the commit hook when a transaction (or a          *)
(* statement in autocommit mode) commits; a rollback calls neither.        *)
(***************************************************************************)
HookTables == {"lists", "todos"}
Operations == {"INSERT", "DELETE", "UPDATE"}
RowIds == {1, 2}

\* The row changes the driver reports in the runs explored.
RowChanges ==
  {ch \in [table : HookTables, operation : Operations, rowId : RowIds] :
     \/ ch.table = "lists" /\ ch.operation = "INSERT" /\ ch.rowId = 1
     \/ ch.table = "todos" /\ ch.operation = "DELETE" /\ ch.rowId = 2
     \/ ch.table = "lists" /\ ch.operation = "UPDATE" /\ ch.rowId = 1}

\* The listeners of powersync.database; l3 defines no tablesUpdated.
Listeners == {"l1", "l2", "l3"}
HasTablesUpdated(l) == l # "l3"
ListenerOrders == {<<>>, <<"l1">>, <<"l2", "l3", "l1">>}

\* Mutant: the cases of the switch are mixed up.
RowUpdateType_Swapped(operation) ==
  CASE operation = "INSERT" -> "SQLITE_DELETE"
    [] operation = "DELETE" -> "SQLITE_INSERT"
    [] operation = "UPDATE" -> "SQLITE_UPDATE"
    [] OTHER -> "undefined"

\* switch (update.operation) { case 'INSERT': ... }
RowUpdateType(operation) ==
  CASE operation = "INSERT" -> "SQLITE_INSERT"
    [] operation = "DELETE" -> "SQLITE_DELETE"
    [] operation = "UPDATE" -> "SQLITE_UPDATE"
    [] OTHER -> "undefined"

\* The object pushed by the update hook; n stands for the object's identity.
UpdateNotification(update) ==
  [table |-> update.table, opType |-> RowUpdateType(update.operation),
   rowId |-> update.rowId, n |-> update.n]

\* Mutant: the buffer is assigned the new entry instead of being pushed to.
updateHook_Overwrites(buf, update) == <<UpdateNotification(update)>>

\* db.updateHook(update => { ...; this.updateBuffer.push({...}) })
updateHook(buf, update) == Append(buf, UpdateNotification(update))

\* this.updateBuffer.reduce((grouping, update) => {...}, {}): the groups by
\* table, and the keys of the grouping object in the order they were created.
EmptyGrouping == [keys |-> <<>>, of |-> [t \in {} |-> <<>>]]

RECURSIVE Reduce(_, _)
Reduce(buf, grouping) ==
  IF buf = <<>> THEN grouping
  ELSE LET update == Head(buf)
           t == update.table IN
       Reduce(Tail(buf),
              IF t \in DOMAIN grouping.of
                THEN [keys |-> grouping.keys,
                      of |-> [grouping.of EXCEPT ![t] = Append(@, update)]]
                ELSE [keys |-> Append(grouping.keys, t),
                      of |-> grouping.of @@ (t :> <<update>>)])

\* Mutant: one entry of tables per update.
BatchTables_PerUpdate(buf, grouping) == [i \in 1..Len(buf) |-> buf[i].table]

\* tables: Object.keys(groupedUpdates)
BatchTables(buf, grouping) == grouping.keys

\* const batchedUpdate = { groupedUpdates, rawUpdates: this.updateBuffer, tables }
BatchedUpdate(buf) ==
  LET grouping == Reduce(buf, EmptyGrouping) IN
  [groupedUpdates |-> grouping.of, rawUpdates |-> buf,
   tables |-> BatchTables(buf, grouping)]

\* Mutant: the buffer is not replaced.
NewBuffer_Kept(buf) == buf

\* this.updateBuffer = []
NewBuffer(buf) == <<>>

\* db.commitHook(() => {...}) up to the call of iterateListeners: with an empty
\* buffer it returns; otherwise the batch is built, the buffer replaced by a
\* new empty array and the iteration over the listeners begins.
commitHook(buf) ==
  IF Len(buf) = 0
    THEN [buffer |-> buf, notifying |-> NotNotifying]
    ELSE [buffer |-> NewBuffer(buf),
          notifying |-> IF listeners = <<>> THEN NotNotifying
                        ELSE [active |-> TRUE, batch |-> BatchedUpdate(buf),
                              todo |-> listeners]]

\* System.init: the adapter and the hooks are set up on the write connection.
HookInit ==
  /\ client = ManagedHandle
  /\ db = drizzle(ManagedHandle)
  /\ calls = [c \in 1..MaxCalls |-> NoCall]
  /\ stack = <<>>
  /\ log = <<>>
  /\ inTxn = [h \in Handles |-> FALSE]
  /\ errs = <<>>
  /\ nstmts = 0
  /\ DemoIdle
  /\ updateBuffer = <<>>
  /\ listeners \in ListenerOrders
  /\ notifying = NotNotifying
  /\ delivered = <<>>
  /\ fate = [n \in 1..MaxChanges |-> "none"]
  /\ lastRun = [buffer |-> <<>>, from |-> 0]
  /\ reported = <<>>
  /\ up = UploadIdle(<<>>)

NumChanges == Cardinality({n \in 1..MaxChanges : fate[n] # "none"})
Settle(f, to) == [n \in 1..MaxChanges |-> IF f[n] = "open" THEN to ELSE f[n]]

\* this.run(sql`begin`) of an adapter transaction on the hooked handle.
HookBegin ==
  /\ ~notifying.active /\ ~inTxn[ManagedHandle]
  /\ inTxn' = [inTxn EXCEPT ![ManagedHandle] = TRUE]
  /\ UNCHANGED <<adapterVars, demoVars, up, hookVars>>

\* A statement changes a row: the driver calls the update hook. Inside a
\* transaction the change stays open; in autocommit mode the statement commits
\* at once and the driver calls the commit hook.
HookStmt ==
  /\ ~notifying.active /\ NumChanges < MaxChanges
  /\ \E ch \in RowChanges :
       LET n == NumChanges + 1
           update == [table |-> ch.table, operation |-> ch.operation, rowId |-> ch.rowId,
                      n |-> n, during |-> 0]
           buf == updateHook(updateBuffer, update) IN
       /\ reported' = Append(reported, update)
       /\ IF inTxn[ManagedHandle]
            THEN /\ updateBuffer' = buf
                 /\ fate' = [fate EXCEPT ![n] = "open"]
                 /\ UNCHANGED <<notifying, lastRun>>
            ELSE /\ updateBuffer' = commitHook(buf).buffer
                 /\ notifying' = commitHook(buf).notifying
                 /\ fate' = [fate EXCEPT ![n] = "committed"]
                 /\ lastRun' = [buffer |-> buf, from |-> Len(delivered)]
  /\ UNCHANGED <<adapterVars, demoVars, up, inTxn, listeners, delivered>>

\* this.run(sql`commit`): the driver calls the commit hook.
HookCommit ==
  /\ ~notifying.active /\ inTxn[ManagedHandle]
  /\ inTxn' = [inTxn EXCEPT ![ManagedHandle] = FALSE]
  /\ updateBuffer' = commitHook(updateBuffer).buffer
  /\ notifying' = commitHook(updateBuffer).notifying
  /\ fate' = Settle(fate, "committed")
  /\ lastRun' = [buffer |-> updateBuffer, from |-> Len(delivered)]
  /\ UNCHANGED <<adapterVars, demoVars, up, listeners, delivered, reported>>

\* catch (err) { this.run(sql`rollback`); throw err }: no hook is called.
HookRollback ==
  /\ ~notifying.active /\ inTxn[ManagedHandle]
  /\ inTxn' = [inTxn EXCEPT ![ManagedHandle] = FALSE]
  /\ fate' = Settle(fate, "rolledback")
  /\ UNCHANGED <<adapterVars, demoVars, up, updateBuffer, listeners, notifying, delivered,
                 lastRun, reported>>

\* adapter.iterateListeners(l => l.tablesUpdated?.(batchedUpdate)): the next
\* listener is visited.
HookNotify ==
  /\ notifying.active
  /\ LET l == Head(notifying.todo)
         rest == Tail(notifying.todo) IN
       /\ delivered' = IF HasTablesUpdated(l)
                         THEN Append(delivered, [listener |-> l, batch |-> notifying.batch])
                         ELSE delivered
       /\ notifying' = IF rest = <<>> THEN NotNotifying ELSE [notifying EXCEPT !.todo = rest]
  /\ UNCHANGED <<adapterVars, demoVars, up, inTxn, updateBuffer, listeners, fate, lastRun, reported>>

\* The listener whose tablesUpdated is running.
Notified == listeners[Len(listeners) - Len(notifying.todo)]

\* A listener writes from inside its tablesUpdated, in a transaction that is
\* committed after the notification (one it begins if none is open): the
\* driver calls the update hook while iterateListeners is running. The
\* history notes the first update of the batch then being delivered.
HookListenerStmt ==
  /\ notifying.active /\ Len(notifying.todo) < Len(listeners)
  /\ HasTablesUpdated(Notified)
  /\ NumChanges < MaxChanges
  /\ \E ch \in RowChanges :
       LET n == NumChanges + 1
           update == [table |-> ch.table, operation |-> ch.operation, rowId |-> ch.rowId,
                      n |-> n, during |-> notifying.batch.rawUpdates[1].n] IN
       /\ reported' = Append(reported, update)
       /\ updateBuffer' = updateHook(updateBuffer, update)
       /\ fate' = [fate EXCEPT ![n] = "open"]
  /\ inTxn' = [inTxn EXCEPT ![ManagedHandle] = TRUE]
  /\ UNCHANGED <<adapterVars, demoVars, up, listeners, notifying, delivered, lastRun>>

HookNext ==
  \/ HookBegin
  \/ HookStmt
  \/ HookListenerStmt
  \/ HookCommit
  \/ HookRollback
  \/ HookNotify

HookSpec == HookInit /\ [][HookNext]_vars

(***************************************************************************)
(* Part 4: SelfhostConnector.uploadData. The sync engine calls it to send  *)
(* the next CRUD transaction of its upload queue to the backend; every     *)
(* await is a step of its own.                                             *)
(***************************************************************************)
CrudOps ==
  {[op |-> "PUT", table |-> "lists", id |-> 1, opData |-> "d1"],
   [op |-> "PATCH", table |-> "lists", id |-> 1, opData |-> "d2"],
   [op |-> "DELETE", table |-> "todos", id |-> 2, opData |-> "null"]}
CrudLens == 1..2
CrudTransactions == UNION {[1..n -> CrudOps] : n \in CrudLens}
Queues == UNION {[1..n -> CrudTransactions] : n \in 0..MaxQueue}

\* let payload = { op, table, id, data: operation.opData }
Payload(operation) ==
  [op |-> operation.op, table |-> operation.table, id |-> operation.id,
   data |-> operation.opData]

\* for (let operation of transaction.crud) { batch.push(payload) }
Batch(crud) == [i \in 1..Len(crud) |-> Payload(crud[i])]

\* Mutant: the response's status is not looked at.
AfterResponse_IgnoresStatus(response) == "complete"

\* if (!response.ok) { throw new Error(...) }; await transaction.complete()
AfterResponse(response) == IF response = "ok" THEN "complete" ELSE "threw"

UploadInit ==
  /\ client = NoHandle
  /\ db = [made |-> FALSE, dollarClient |-> NoHandle, session |-> OPSQLiteSessionNew(NoHandle)]
  /\ calls = [c \in 1..MaxCalls |-> NoCall]
  /\ stack = <<>>
  /\ log = <<>>
  /\ inTxn = [h \in Handles |-> FALSE]
  /\ errs = <<>>
  /\ nstmts = 0
  /\ DemoIdle
  /\ updateBuffer = <<>>
  /\ listeners = <<>>
  /\ notifying = NotNotifying
  /\ delivered = <<>>
  /\ fate = [n \in 1..MaxChanges |-> "none"]
  /\ lastRun = [buffer |-> <<>>, from |-> 0]
  /\ reported = <<>>
  /\ \E queue \in Queues : up = UploadIdle(queue)

UploadUnchanged == UNCHANGED <<adapterVars, demoVars, inTxn, updateBuffer, listeners,
                               notifying, delivered, fate, lastRun, reported>>

\* uploadData is called: const transaction = await database.getNextCrudTransaction();
\* if (!transaction) return.
UploadStart ==
  /\ up.pc \in {"idle", "returned", "threw"}
  /\ LET fresh == [UploadIdle(up.queue) EXCEPT !.clientId = up.clientId] IN
     IF up.queue = <<>>
       THEN up' = [fresh EXCEPT !.pc = "returned"]
       ELSE up' = [fresh EXCEPT !.transaction = Head(up.queue),
                                !.pc = IF up.clientId = "null" THEN "clientId" ELSE "post"]
  /\ UploadUnchanged

\* this._clientId = await database.getClientId(), which may throw.
UploadGetClientId ==
  /\ up.pc = "clientId"
  /\ \/ up' = [up EXCEPT !.clientId = "id", !.pc = "post"]
     \/ up' = [up EXCEPT !.pc = "threw", !.error = "clientId"]
  /\ UploadUnchanged

\* The batch is built and posted: await fetch(...). The request throws, or a
\* response arrives that is ok or not; a response that is not ok is thrown as
\* an error, and the catch block throws on what it caught.
UploadPost ==
  /\ up.pc = "post"
  /\ LET batch == Batch(up.transaction) IN
     \E response \in {"ok", "not_ok", "failed"} :
       up' = [up EXCEPT !.batch = batch,
                        !.posts = Append(@, batch),
                        !.response = response,
                        !.pc = AfterResponse(response),
                        !.error = IF AfterResponse(response) = "threw"
                                    THEN (IF response = "failed" THEN "fetch" ELSE "received")
                                    ELSE "none"]
  /\ UploadUnchanged

\* await transaction.complete(): the transaction leaves the queue, or the call
\* throws.
UploadComplete ==
  /\ up.pc = "complete"
  /\ \/ up' = [up EXCEPT !.completeCalled = TRUE, !.queue = Tail(@), !.pc = "returned"]
     \/ up' = [up EXCEPT !.completeCalled = TRUE, !.pc = "threw", !.error = "complete"]
  /\ UploadUnchanged

UploadNext ==
  \/ UploadStart
  \/ UploadGetClientId
  \/ UploadPost
  \/ UploadComplete

UploadSpec == UploadInit /\ [][UploadNext]_vars

\* ------------------------------------------------------------ the claims
\* The transaction() calls of the running top-level operation.
CallIds == {c \in 1..MaxCalls : calls[c].pc # "unused"}
Finished(c) == calls[c].pc \in {"returned", "threw"}
LogIdx == 1..Len(log)

\* Indices of the BEGIN/COMMIT/ROLLBACK that transaction() call c issued.
Issued(c, sql) ==
  {i \in LogIdx : log[i].ev = "exec" /\ log[i].call = c /\ log[i].sql = sql
                  /\ log[i].via = "session"}
Events(c, ev) == {i \in LogIdx : log[i].ev = ev /\ log[i].call = c}
CommitOk(c) == \E k \in Issued(c, "commit") : log[k].ok

\* What C1 promises of a finished call whose callback returned normally.
NormalCompletion(c) ==
  /\ \E b \in Issued(c, "begin"), e \in Events(c, "cb_enter") : b < e
  /\ Cardinality(Events(c, "cb_enter")) = 1
  /\ \E r \in Events(c, "cb_return"), k \in Issued(c, "commit") : r < k
  /\ Issued(c, "rollback") = {}
  /\ calls[c].pc = "returned"
  /\ \E r \in Events(c, "cb_return"), t \in Events(c, "tx_return") :
       r < t /\ log[t].val = log[r].val

\* C1 as stated: whenever the callback returned normally, the finished call
\* issued BEGIN before the callback, ran the callback once, issued COMMIT after
\* it, issued no ROLLBACK and returned the callback's value.
C1_AsStated ==
  \A c \in CallIds :
    Finished(c) /\ Events(c, "cb_return") # {} => NormalCompletion(c)

\* C1 amended: the same, for calls whose callback returned normally and whose
\* COMMIT statement succeeded.
C1_CommitOkCompletes ==
  \A c \in CallIds :
    Finished(c) /\ Events(c, "cb_return") # {} /\ CommitOk(c) => NormalCompletion(c)

C1_Witness ==
  \E c \in CallIds : calls[c].pc = "returned" /\ calls[c].result = "v2"

\* C2: when the callback throws (BEGIN having succeeded), the call never issues
\* COMMIT, and once finished it has issued ROLLBACK after the throw and has
\* thrown, not returned.
C2_CallbackThrowRollsBack ==
  \A c \in CallIds :
    Events(c, "cb_throw") # {} =>
      /\ \E b \in Issued(c, "begin") : log[b].ok
      /\ Issued(c, "commit") = {}
      /\ Events(c, "tx_return") = {}
      /\ Finished(c) =>
           /\ \E t \in Events(c, "cb_throw"), r \in Issued(c, "rollback") : t < r
           /\ calls[c].pc = "threw"
           /\ Events(c, "tx_throw") # {}

C2_Witness ==
  \E c \in CallIds : calls[c].pc = "threw" /\ Events(c, "cb_throw") # {}

\* C3: a tx.transaction() call throws 'Nested transactions are not supported',
\* invokes no callback, executes nothing on a native handle and leaves the
\* connection state alone; when the outer callback lets the error escape, the
\* outer call issues ROLLBACK, never COMMIT, throws, and leaves no transaction
\* open when it throws.
NestedCount(l) == Cardinality({i \in 1..Len(l) : l[i].ev = "nested_throw"})
Uncaught(i) ==
  /\ log[i].ev = "nested_throw"
  /\ i < Len(log) /\ log[i + 1].ev = "cb_throw" /\ log[i + 1].err = log[i].err

C3_NestedStep ==
  NestedCount(log') > NestedCount(log) =>
    /\ \A i \in (Len(log) + 1)..Len(log') : log'[i].ev \notin {"exec", "cb_enter"}
    /\ errs'[log'[Len(log) + 1].err] = NestedMsg
    /\ inTxn' = inTxn

C3_OuterRolledBack ==
  \A i \in LogIdx :
    Uncaught(i) =>
      LET c == log[i].call IN
        /\ Issued(c, "commit") = {}
        /\ Events(c, "tx_return") = {}
        /\ Finished(c) =>
             /\ \E r \in Issued(c, "rollback") : r > i
             /\ calls[c].pc = "threw"

\* The step in which a call leaves its catch block leaves no transaction open.
C3_RollbackStep ==
  \A c \in CallIds :
    calls[c].pc = "catch" /\ calls'[c].pc = "threw" => ~inTxn'[RunHandle(db.session)]

C3_NestedRejected ==
  [][C3_NestedStep /\ C3_RollbackStep]_vars /\ []C3_OuterRolledBack

C3_Witness ==
  \E i \in LogIdx : Uncaught(i) /\ calls[log[i].call].pc = "threw"

\* C4: a statement the callback issues through tx is executed after the
\* successful BEGIN of its transaction() call and before that call's COMMIT or
\* ROLLBACK, which a finished call has issued after it.
C4_StatementsInsideTransaction ==
  \A i \in LogIdx :
    log[i].ev = "exec" /\ log[i].via = "tx" =>
      LET c == log[i].call
          ends == Issued(c, "commit") \cup Issued(c, "rollback") IN
        /\ \E b \in Issued(c, "begin") : b < i /\ log[b].ok
        /\ \A k \in ends : i < k
        /\ Finished(c) => ends # {}

C4_Witness ==
  \E i \in LogIdx :
    /\ log[i].ev = "exec" /\ log[i].via = "tx"
    /\ Finished(log[i].call)

\* C5 as stated: the error transaction() throws is the error that first left
\* the callback or the failing BEGIN/COMMIT.
C5_FirstErrorThrown ==
  \A c \in CallIds :
    calls[c].pc = "threw" => calls[c].thrown = calls[c].orig

\* C6: once all the concurrently started inserts of distinct ids have settled,
\* whatever the order they ran in and whatever path each took, every insert
\* was fulfilled, the table holds exactly one row per insert and each inserted
\* id is present exactly once.
C6_AllInsertsPresent ==
  scenario = "inserts" /\ AllSettled =>
    /\ Cardinality(table) = Len(tasks)
    /\ \A k \in 1..Len(tasks) :
         /\ tasks[k].status = "fulfilled"
         /\ Cardinality(RowsWith(table, tasks[k].ops[1].id)) = 1

C6_Witness ==
  /\ scenario = "inserts" /\ AllSettled
  /\ \E j, k \in 1..Len(tasks) :
       tasks[j].ops[1].path = "managed" /\ tasks[k].ops[1].path = "adapter"

\* C7: once all the concurrently started updates and deletes of distinct
\* existing ids have settled, every updated row is there once with the name
\* its own update wrote, every deleted row is gone, no row keeps its original
\* name and the table holds no row the operations did not leave there.
C7_FinalTableAsExpected ==
  scenario = "updates_deletes" /\ AllSettled =>
    /\ \A k \in 1..Len(tasks) :
         LET op == tasks[k].ops[1] IN
           /\ tasks[k].status = "fulfilled"
           /\ op.kind = "delete" => RowsWith(table, op.id) = {}
           /\ op.kind # "delete" =>
                /\ Cardinality(RowsWith(table, op.id)) = 1
                /\ \A r \in RowsWith(table, op.id) : r.name = op.name
    /\ \A r \in table :
         /\ r.name[1] # "original"
         /\ \E k \in 1..Len(tasks) :
              tasks[k].ops[1].id = r.id /\ tasks[k].ops[1].kind # "delete"

C7_Witness ==
  /\ scenario = "updates_deletes" /\ AllSettled
  /\ \E i, j, k \in 1..Len(tasks) :
       /\ tasks[i].ops[1].kind = "update" /\ tasks[i].ops[1].path = "managed"
       /\ tasks[j].ops[1].kind = "update" /\ tasks[j].ops[1].path = "adapter"
       /\ tasks[k].ops[1].kind = "delete"

\* C8: a write attempted through the managed connection while the second raw
\* connection holds its BEGIN IMMEDIATE transaction fails, with an error whose
\* message contains 'lock'.
C8_ManagedWriteLocked ==
  \A i \in 1..Len(attempts) :
    attempts[i].held => attempts[i].error # NoError /\ MentionsLock(attempts[i].error)

C8_Witness ==
  /\ lt.pc = "finally"
  /\ \E i \in 1..Len(attempts) : attempts[i].held

\* C9: during and after the awaited delete/insert cycle on one id the table
\* never holds more than one row with that id.
C9_AtMostOneRow ==
  scenario = "delete_insert" => Cardinality(RowsWith(table, 1)) <= 1

C9_Witness ==
  /\ scenario = "delete_insert" /\ AllSettled
  /\ tasks[1].status = "fulfilled"
  /\ Cardinality(RowsWith(table, 1)) = 1

\* C11: runLockingTest reports passed = true exactly when an error was caught
\* whose message contains 'lock' in any mix of upper and lower case; otherwise
\* it reports passed = false together with an error text, which quotes the
\* caught message or 'no error'.
HasLockAnyCase(msg) ==
  \E i \in 1..(Len(msg) - 3) :
    /\ msg[i] \in {"l", "L"}
    /\ msg[i + 1] \in {"o", "O"}
    /\ msg[i + 2] \in {"c", "C"}
    /\ msg[i + 3] \in {"k", "K"}

C11_PassedIffLockMessage ==
  lt.pc = "done" =>
    /\ lt.passed <=> (lt.caught /\ HasLockAnyCase(lt.lockError))
    /\ lt.passed => ~lt.error.defined
    /\ ~lt.passed =>
         /\ lt.error.defined
         /\ lt.error.got = IF lt.caught THEN lt.lockError ELSE NoErrorText

C11_Witness ==
  /\ lt.pc = "done" /\ lt.passed
  /\ lt.lockError = <<"x", "L", "o", "c", "k">>

\* C12: one transaction() call issues BEGIN exactly once, enters the callback
\* at most once, issues COMMIT at most once and ROLLBACK at most once; a
\* statement of the callback reaches the connection once per request of the
\* callback, so nothing is issued again after it failed.
TxExecs == {i \in LogIdx : log[i].ev = "exec" /\ log[i].via = "tx"}

C12_NoRetry ==
  /\ \A c \in CallIds :
       /\ Cardinality(Issued(c, "begin")) <= 1
       /\ calls[c].pc \notin {"unused", "begin"} => Cardinality(Issued(c, "begin")) = 1
       /\ Cardinality(Events(c, "cb_enter")) <= 1
       /\ Cardinality(Issued(c, "commit")) <= 1
       /\ Cardinality(Issued(c, "rollback")) <= 1
  /\ Cardinality(TxExecs) <= nstmts

C12_Witness ==
  \E c \in CallIds :
    /\ calls[c].pc = "threw"
    /\ \E k \in Issued(c, "commit") : ~log[k].ok
    /\ \E i \in TxExecs : log[i].call = c /\ ~log[i].ok

\* C13: once all the concurrently started updates of the one shared row have
\* settled, in whatever order they ran, every update was fulfilled and exactly
\* one row with that id exists, carrying the name one of the updates wrote.
C13_SameRowKept ==
  scenario = "same_row" /\ AllSettled =>
    /\ \A k \in 1..Len(tasks) : tasks[k].status = "fulfilled"
    /\ Cardinality(RowsWith(table, 1)) = 1
    /\ \A r \in RowsWith(table, 1) : r.name[1] = "updated"

C13_Witness ==
  /\ scenario = "same_row" /\ AllSettled
  /\ \E r \in table : r.id = 1 /\ r.name = <<"updated", 0>>

\* C14: once the two insert-then-update pairs and the single insert have
\* settled, in whatever order their statements interleaved, all of them were
\* fulfilled, the three rows exist once each, each paired row carries the name
\* of its update and the third row the name of its insert; and at no time
\* does a row carry an updated name before its insert was applied.
C14_PairsInProgramOrder ==
  scenario = "mixed_apis" =>
    /\ \A r \in table : r.name = <<"updated", r.id>> \/ r.name = <<"inserted", r.id>>
    /\ AllSettled =>
         /\ \A k \in 1..Len(tasks) : tasks[k].status = "fulfilled"
         /\ \A id \in {1, 2, 3} : Cardinality(RowsWith(table, id)) = 1
         /\ \A r \in table : r.name = IF r.id = 3 THEN <<"inserted", 3>> ELSE <<"updated", r.id>>
         /\ Cardinality(table) = 3

C14_Witness ==
  /\ scenario = "mixed_apis" /\ AllSettled
  /\ \E r \in table : r.id = 2 /\ r.rowid = 1
  /\ \E r \in table : r.id = 3 /\ r.rowid = 2

\* C15 as stated: no batch handed to a listener's tablesUpdated contains a row
\* change whose transaction was rolled back.
C15_OnlyCommittedDelivered ==
  \A i \in 1..Len(delivered) :
    \A j \in 1..Len(delivered[i].batch.rawUpdates) :
      fate[delivered[i].batch.rawUpdates[j].n] # "rolledback"

\* C16 as stated: the adapter issues no BEGIN on the connection while a
\* transaction it began is open, that is, after a BEGIN of its own succeeded
\* and before any COMMIT, ROLLBACK or failing statement followed it.
IsBegin(i) == log[i].ev = "exec" /\ log[i].sql = "begin" /\ log[i].via = "session"

C16_NoBeginInsideOpen ==
  \A b, i \in LogIdx :
    b < i /\ IsBegin(b) /\ log[b].ok /\ IsBegin(i) =>
      \E k \in (b + 1)..(i - 1) :
        log[k].ev = "exec" /\ (~log[k].ok \/ log[k].sql # "stmt")

\* C17 as stated: a finished call whose callback returned and whose COMMIT
\* failed has issued ROLLBACK after the COMMIT, has not returned, and has
\* thrown the error of the COMMIT.
C17_CommitFailureThrowsCommitError ==
  \A c \in CallIds :
    \A k \in Issued(c, "commit") :
      Finished(c) /\ ~log[k].ok =>
        /\ \E r \in Issued(c, "rollback") : k < r
        /\ Events(c, "tx_return") = {}
        /\ calls[c].pc = "threw"
        /\ calls[c].thrown = log[k].err

\* C18: a call whose BEGIN failed has thrown the error of the BEGIN, and has
\* neither entered the callback nor issued COMMIT or ROLLBACK.
C18_BeginFailureThrows ==
  \A c \in CallIds :
    \A b \in Issued(c, "begin") :
      ~log[b].ok =>
        /\ Events(c, "cb_enter") = {}
        /\ Issued(c, "commit") = {}
        /\ Issued(c, "rollback") = {}
        /\ Events(c, "tx_return") = {}
        /\ calls[c].pc = "threw"
        /\ calls[c].thrown = log[b].err
        /\ errs[log[b].err] = NativeMsg

C18_Witness ==
  /\ calls[1].pc = "threw" /\ stack = <<>>
  /\ \E b \in Issued(1, "begin") : ~log[b].ok

\* C19: every statement executed between the successful BEGIN of a
\* transaction() call and that call's COMMIT or ROLLBACK was issued by the
\* call itself, by its callback through tx, or by a transaction() call its
\* callback made: no statement of another task falls inside the transaction.
RECURSIVE Descends(_, _)
Descends(d, c) == d # 0 /\ (d = c \/ Descends(calls[d].parent, c))

Ends(c) == Issued(c, "commit") \cup Issued(c, "rollback")

C19_NoForeignStatementInside ==
  \A c \in CallIds :
    calls[c].pc \notin {"unused", "begin"} =>
      LET ends == Ends(c) IN
      \A b \in Issued(c, "begin") :
        log[b].ok =>
          \A i \in (b + 1)..Len(log) :
            log[i].ev = "exec" /\ (\A k \in ends : i <= k) =>
              /\ Descends(log[i].call, c)
              /\ log[i].via \in {"tx", "session"}

C19_Witness ==
  /\ calls[1].pc = "returned" /\ stack = <<>>
  /\ \E i \in TxExecs : log[i].call = 1 /\ log[i].ok
  /\ \E i \in LogIdx : IsBegin(i) /\ log[i].call = 2

\* C20: when a commit hook that found a non-empty buffer has finished, it has
\* called tablesUpdated once for every registered listener that defines it,
\* in iteration order, each time with a batch whose rawUpdates is the buffer
\* it found, whose groupedUpdates holds for each table of the buffer that
\* table's updates in arrival order, and whose tables names each of these
\* tables once; a commit hook that found the buffer empty has called nobody.
UpdatesOf(buf, t) == LET OfTable(u) == u.table = t IN SelectSeq(buf, OfTable)
TablesIn(buf) == {buf[j].table : j \in 1..Len(buf)}

GoodBatch(batch, buf) ==
  /\ batch.rawUpdates = buf
  /\ DOMAIN batch.groupedUpdates = TablesIn(buf)
  /\ \A t \in TablesIn(buf) : batch.groupedUpdates[t] = UpdatesOf(buf, t)
  /\ {batch.tables[j] : j \in 1..Len(batch.tables)} = TablesIn(buf)
  /\ Len(batch.tables) = Cardinality(TablesIn(buf))

C20_CommitHookBatch ==
  ~notifying.active =>
    LET news == SubSeq(delivered, lastRun.from + 1, Len(delivered))
        handlers == SelectSeq(listeners, HasTablesUpdated) IN
    IF lastRun.buffer = <<>>
      THEN news = <<>>
      ELSE /\ Len(news) = Len(handlers)
           /\ \A i \in 1..Len(news) :
                /\ news[i].listener = handlers[i]
                /\ GoodBatch(news[i].batch, lastRun.buffer)

C20_Witness ==
  /\ ~notifying.active
  /\ Len(delivered) = 2
  /\ Len(lastRun.buffer) = 3
  /\ lastRun.buffer[1].table = "lists"
  /\ lastRun.buffer[2].table = "todos"
  /\ lastRun.buffer[3].table = "lists"

\* C21: a step in which the driver reports a row change appends exactly one
\* entry to the end of the buffer the update hook found, holding the change's
\* table and row id and SQLITE_INSERT, SQLITE_DELETE or SQLITE_UPDATE for an
\* INSERT, DELETE or UPDATE; the update hook calls no listener. (In autocommit
\* mode the commit hook follows in the same step: the buffer it found is the
\* one the update hook left.)
ExpectedOpType(operation) ==
  CASE operation = "INSERT" -> "SQLITE_INSERT"
    [] operation = "DELETE" -> "SQLITE_DELETE"
    [] operation = "UPDATE" -> "SQLITE_UPDATE"

C21_Step ==
  Len(reported') > Len(reported) =>
    LET n == Len(reported')
        update == reported'[n]
        left == IF lastRun' # lastRun THEN lastRun'.buffer ELSE updateBuffer' IN
    /\ n = Len(reported) + 1
    /\ left = Append(updateBuffer,
                     [table |-> update.table, opType |-> ExpectedOpType(update.operation),
                      rowId |-> update.rowId, n |-> n])
    /\ delivered' = delivered

C21_UpdateHookAppends == [][C21_Step]_vars

C21_Witness ==
  /\ Len(updateBuffer) = 3
  /\ updateBuffer[1].opType = "SQLITE_INSERT" /\ reported[1].operation = "INSERT"
  /\ updateBuffer[2].opType = "SQLITE_DELETE" /\ reported[2].operation = "DELETE"
  /\ updateBuffer[3].opType = "SQLITE_UPDATE" /\ reported[3].operation = "UPDATE"

\* C22: for every listener that defines tablesUpdated, the batches it was
\* handed, in order, followed by the batch it is about to be handed and by the
\* buffer, hold the reported updates 1, 2, ... each exactly once and in the
\* order reported: no update is delivered twice, none is dropped; and a commit
\* hook that built a batch has taken the whole buffer, which is empty when
\* the first listener is called.
Ids(buf) == [j \in 1..Len(buf) |-> buf[j].n]

RECURSIVE DeliveredIds(_, _)
DeliveredIds(l, k) ==
  IF k = 0 THEN <<>>
  ELSE DeliveredIds(l, k - 1)
       \o (IF delivered[k].listener = l THEN Ids(delivered[k].batch.rawUpdates) ELSE <<>>)

Awaiting(l) ==
  IF notifying.active /\ \E j \in 1..Len(notifying.todo) : notifying.todo[j] = l
    THEN Ids(notifying.batch.rawUpdates) ELSE <<>>

C22_DeliveredExactlyOnce ==
  /\ \A j \in 1..Len(listeners) :
       HasTablesUpdated(listeners[j]) =>
         DeliveredIds(listeners[j], Len(delivered)) \o Awaiting(listeners[j])
           \o Ids(updateBuffer) = [n \in 1..Len(reported) |-> n]
  /\ notifying.active /\ notifying.todo = listeners => updateBuffer = <<>>
  /\ \A i \in 1..Len(delivered) :
       \A j \in 1..Len(delivered[i].batch.rawUpdates) :
         LET e == delivered[i].batch.rawUpdates[j] IN
           e.table = reported[e.n].table /\ e.rowId = reported[e.n].rowId

C22_Witness ==
  /\ ~notifying.active
  /\ Len(reported) = 3 /\ updateBuffer = <<>>
  /\ \E i, k \in 1..Len(delivered) :
       /\ i < k
       /\ delivered[i].listener = "l1" /\ delivered[k].listener = "l1"
       /\ Ids(delivered[i].batch.rawUpdates) = <<1, 2>>
       /\ Ids(delivered[k].batch.rawUpdates) = <<3>>

\* C23: the buffer is a new, empty one before the commit hook calls the first
\* listener; a row change reported while a batch is being delivered is in no
\* batch together with that batch's updates, and it is not lost: it is in the
\* buffer until a later commit hook puts it into its batch.
InBatch(n, buf) == \E j \in 1..Len(buf) : buf[j].n = n

C23_FreshBufferBeforeNotify ==
  /\ notifying.active => \A j \in 1..Len(updateBuffer) : updateBuffer[j].n > lastRun.buffer[1].n
  /\ notifying.active => notifying.batch.rawUpdates = lastRun.buffer
  /\ \A n \in 1..Len(reported) :
       reported[n].during # 0 =>
         /\ \A i \in 1..Len(delivered) :
              ~(/\ InBatch(n, delivered[i].batch.rawUpdates)
                /\ InBatch(reported[n].during, delivered[i].batch.rawUpdates))
         /\ \/ InBatch(n, updateBuffer)
            \/ notifying.active /\ InBatch(n, notifying.batch.rawUpdates)
            \/ \E i \in 1..Len(delivered) : InBatch(n, delivered[i].batch.rawUpdates)

C23_Witness ==
  /\ ~notifying.active
  /\ Len(reported) = 3 /\ reported[2].during = 1
  /\ \E i, k \in 1..Len(delivered) :
       /\ i < k
       /\ delivered[i].listener = "l1" /\ delivered[k].listener = "l1"
       /\ Ids(delivered[i].batch.rawUpdates) = <<1>>
       /\ Ids(delivered[k].batch.rawUpdates) = <<2, 3>>

\* C24: uploadData calls complete() only after its one POST of the batch was
\* answered with an ok response; when the response is not ok or the request
\* throws, the call throws and complete() is not called; when no CRUD
\* transaction is waiting, the call returns without a request.
C24_CompleteOnlyAfterOk ==
  /\ up.completeCalled =>
       /\ up.response = "ok"
       /\ up.posts = <<Batch(up.transaction)>>
  /\ up.response \in {"not_ok", "failed"} => up.pc = "threw" /\ ~up.completeCalled
  /\ up.pc = "returned" /\ up.transaction = NoTransaction =>
       up.posts = <<>> /\ ~up.completeCalled
  /\ up.pc = "returned" /\ up.transaction # NoTransaction =>
       up.completeCalled /\ up.response = "ok"
  /\ Len(up.posts) <= 1

C24_Witness ==
  /\ up.pc = "returned" /\ up.completeCalled
  /\ Len(up.transaction) = 2 /\ up.queue = <<>>

\* C25: runLockingTest reports passed = true only when the write through the
\* managed connection was attempted and failed; an error of the separate
\* connection's own BEGIN IMMEDIATE TRANSACTION never makes it report passed.
C25_PassedOnlyAfterManagedWrite ==
  lt.pc = "done" /\ lt.passed =>
    \E i \in 1..Len(attempts) : attempts[i].error # NoError

\* The steps of runLockingTest.
LtStep == LtBegin \/ LtInsert \/ LtFinally \/ LtResult

C10_OneHandle ==
  db.made =>
    /\ db.dollarClient = client
    /\ \A i \in LogIdx : log[i].ev = "exec" => log[i].h = client

C10_Witness ==
  /\ \E i \in LogIdx : log[i].ev = "exec" /\ log[i].via = "tx"
  /\ \E i \in LogIdx : log[i].ev = "exec" /\ log[i].sql = "commit"
====
